---- MODULE Spec2Model ----
(***************************************************************************)
(* Fixed-width Cliente record reader (src/cliente_reader.py): the field    *)
(* catalogue, the field decoder (ClienteField.parse_value), the record     *)
(* decoder (ClienteRecordReader.parse_record) and the file reader          *)
(* (ClienteRecordReader.read_file).                                        *)
(*                                                                         *)
(* A Python str is a sequence of characters; a character is a one-letter   *)
(* TLA+ string, or a named token for the characters that have no printable *)
(* ASCII form.                                                             *)
(***************************************************************************)
EXTENDS Integers, Sequences, FiniteSets, TLC

VARIABLES
    pc,             \* position of the running operation
    fields,         \* ClienteRecordReader.fields
    record_length,  \* ClienteRecordReader.record_length
    fields_spec,    \* the list _define_fields() hands to __init__
    raw,            \* parse_value: the raw_value argument
    ftype,          \* parse_value: self.field_type
    out,            \* parse_value: the value returned, or the exception raised
    line,           \* parse_record: the line argument
    work,           \* parse_record: the local `line` after the padding step
    rec,            \* parse_record: the record returned, or the exception raised
    file,           \* read_file: the lines the opened file yields
    line_num,       \* read_file: enumerate(file, 1) counter of the last line taken
    records,        \* read_file: the local list `records`
    stdout,         \* what print() has written
    is_open,        \* read_file: the file object is open
    result,         \* read_file: the returned value
    checked,        \* validate_record_length: the line argument
    is_valid,       \* validate_record_length: the value returned
    field_info,     \* get_field_info: the dict returned
    encoded,        \* the line written back from the fields of rec
    redecoded,      \* parse_record of the line written back
    record_num,     \* create_sample_record: its argument
    num_records,    \* create_diverse_sample_records: its argument
    generated,      \* the list of lines the generator returned
    valid_count,    \* main: lines of valid length counted by the validation pass
    invalid_count   \* main: lines of invalid length counted by the validation pass

\* the variables of validate_record_length
validate_vars == <<checked, is_valid>>

\* the variables of the operations other than parse_value, parse_record and read_file
roundtrip_vars == <<encoded, redecoded>>

gen_vars == <<record_num, num_records, generated>>

main_vars == <<valid_count, invalid_count>>

aux == <<validate_vars, field_info, roundtrip_vars, gen_vars, main_vars>>

vars == <<pc, fields, record_length, fields_spec, raw, ftype, out, line, work,
          rec, file, line_num, records, stdout, is_open, result, aux>>

(***************************************************************************)
(* Characters                                                              *)
(***************************************************************************)
SP   == " "
TAB  == "TAB"     \* U+0009
LF   == "LF"      \* U+000A
CR   == "CR"      \* U+000D
SUP2 == "sup2"    \* U+00B2 SUPERSCRIPT TWO: str.isdigit() is True, int() rejects it

\* str.strip() with no argument removes these
Whitespace == {SP, TAB, LF, CR}

\* the characters int() reads as decimal digits
DecimalChars == {"0", "1", "2", "3", "4", "5", "6", "7", "8", "9"}

\* the characters str.isdigit() accepts
DigitChars == DecimalChars \cup {SUP2}

DigitVal(c) ==
    CASE c = "0" -> 0 [] c = "1" -> 1 [] c = "2" -> 2 [] c = "3" -> 3
      [] c = "4" -> 4 [] c = "5" -> 5 [] c = "6" -> 6 [] c = "7" -> 7
      [] c = "8" -> 8 [] c = "9" -> 9

\* str.upper() on one character
UpperChar(c) ==
    CASE c = "t" -> "T" [] c = "r" -> "R" [] c = "u" -> "U" [] c = "e" -> "E"
      [] c = "y" -> "Y" [] c = "s" -> "S" [] c = "i" -> "I" [] c = "n" -> "N"
      [] c = "o" -> "O" [] c = "a" -> "A" [] c = "x" -> "X"
      [] OTHER -> c

Upper(s) == [i \in 1..Len(s) |-> UpperChar(s[i])]

(***************************************************************************)
(* str helpers                                                             *)
(***************************************************************************)
\* index of the first character that is not in chars (Len(s)+1 if there is none)
FirstKept(s, chars) ==
    CHOOSE i \in 1..(Len(s) + 1) :
        /\ i = Len(s) + 1 \/ s[i] \notin chars
        /\ \A j \in 1..(i - 1) : s[j] \in chars

\* index of the last character that is not in chars (0 if there is none)
LastKept(s, chars) ==
    CHOOSE i \in 0..Len(s) :
        /\ i = 0 \/ s[i] \notin chars
        /\ \A j \in (i + 1)..Len(s) : s[j] \in chars

\* s.rstrip(chars)
RStrip(s, chars) == SubSeq(s, 1, LastKept(s, chars))

\* s.strip()
Strip(s) ==
    LET a == FirstKept(s, Whitespace) IN
    IF a > Len(s) THEN <<>> ELSE SubSeq(s, a, LastKept(s, Whitespace))

\* s.isdigit(): non-empty and every character is a digit character
IsDigit(s) == Len(s) > 0 /\ \A i \in 1..Len(s) : s[i] \in DigitChars

SliceToEnd(s, start, end) ==
    IF start >= Len(s) THEN <<>> ELSE SubSeq(s, start + 1, Len(s))

\* line[start:end] with 0 <= start <= end: clipped to the string, never raises
Slice(s, start, end) ==
    LET hi == IF end < Len(s) THEN end ELSE Len(s) IN
    IF start >= hi THEN <<>> ELSE SubSeq(s, start + 1, hi)

Spaces(n) == [i \in 1..n |-> SP]

\* s.ljust(width)
Ljust(s, width) == IF Len(s) >= width THEN s ELSE s \o Spaces(width - Len(s))

(***************************************************************************)
(* Python values: a tag and a payload                                      *)
(***************************************************************************)
StrV(s)        == [t |-> "str", v |-> s]
IntV(n)        == [t |-> "int", v |-> <<n>>]
BoolV(b)       == [t |-> "bool", v |-> <<b>>]
DateV(y, m, d) == [t |-> "date", v |-> <<y, m, d>>]
NoneV          == [t |-> "None", v |-> <<>>]
ValueError     == [t |-> "ValueError", v |-> <<>>]
TypeError      == [t |-> "TypeError", v |-> <<>>]
NotYet         == [t |-> "pending", v |-> <<>>]

IsException(x) == x.t \in {"ValueError", "TypeError"}

\* the number a string of decimal digits denotes
RECURSIVE DecimalValue(_, _, _)
DecimalValue(s, i, acc) ==
    IF i > Len(s) THEN acc ELSE DecimalValue(s, i + 1, acc * 10 + DigitVal(s[i]))

\* int(s) for a string that passed isdigit(): a digit character that is no
\* decimal digit makes int() raise ValueError
PyInt(s) ==
    IF \A i \in 1..Len(s) : s[i] \in DecimalChars
    THEN IntV(DecimalValue(s, 1, 0))
    ELSE ValueError

\* datetime.date(year, month, day): ValueError outside the calendar
IsLeap(year) == year % 4 = 0 /\ (year % 100 # 0 \/ year % 400 = 0)

DaysInMonth(year, month) ==
    IF month = 2 THEN (IF IsLeap(year) THEN 29 ELSE 28)
    ELSE IF month \in {4, 6, 9, 11} THEN 30 ELSE 31

PyDate(year, month, day) ==
    IF /\ year >= 1 /\ year <= 9999
       /\ month >= 1 /\ month <= 12
       /\ day >= 1 /\ day <= DaysInMonth(year, month)
    THEN DateV(year, month, day)
    ELSE ValueError

(***************************************************************************)
(* ClienteField.parse_value                                                *)
(***************************************************************************)
\* field_type == 'integer'
ParseInteger(clean_value) ==
    IF clean_value # <<>> /\ IsDigit(clean_value) THEN PyInt(clean_value) ELSE IntV(0)

TruthTokens == { <<"T", "R", "U", "E">>, <<"1">>, <<"Y">>, <<"S">>, <<"S", "I">> }

ParseBooleanCaseSensitive(clean_value) ==
    BoolV(clean_value \in TruthTokens \/ Strip(clean_value) = <<"1">>)

\* field_type == 'boolean'
ParseBoolean(clean_value) ==
    BoolV(Upper(clean_value) \in TruthTokens \/ Strip(clean_value) = <<"1">>)

ParseDateUncaught(clean_value) ==
    IF Len(clean_value) = 8 /\ IsDigit(clean_value)
    THEN LET year  == PyInt(SubSeq(clean_value, 1, 4))
             month == PyInt(SubSeq(clean_value, 5, 6))
             day   == PyInt(SubSeq(clean_value, 7, 8))
         IN  IF IsException(year) \/ IsException(month) \/ IsException(day)
             THEN ValueError
             ELSE PyDate(year.v[1], month.v[1], day.v[1])
    ELSE NoneV

\* field_type == 'date': the try block turns every ValueError into None
ParseDate(clean_value) ==
    IF Len(clean_value) = 8 /\ IsDigit(clean_value)
    THEN LET year  == PyInt(SubSeq(clean_value, 1, 4))
             month == PyInt(SubSeq(clean_value, 5, 6))
             day   == PyInt(SubSeq(clean_value, 7, 8))
             made  == IF IsException(year) \/ IsException(month) \/ IsException(day)
                      THEN ValueError
                      ELSE PyDate(year.v[1], month.v[1], day.v[1])
         IN  IF made = ValueError THEN NoneV ELSE made
    ELSE NoneV

ParseValue(field_type, raw_value) ==
    LET clean_value == Strip(raw_value) IN
    IF field_type = "integer" THEN ParseInteger(clean_value)
    ELSE IF field_type = "boolean" THEN ParseBoolean(clean_value)
    ELSE IF field_type = "date" THEN ParseDate(clean_value)
    ELSE StrV(clean_value)

(***************************************************************************)
(* The field catalogue: ClienteField and ClienteRecordReader._define_fields *)
(***************************************************************************)
\* ClienteField(name, length, field_type) with start_pos left at its default
ClienteFieldDefaultStart(name, length, field_type, start_pos) ==
    [name |-> name, length |-> length, field_type |-> field_type, start_pos |-> 0]

\* ClienteField(name, length, field_type, start_pos)
ClienteField(name, length, field_type, start_pos) ==
    [name |-> name, length |-> length, field_type |-> field_type,
     start_pos |-> start_pos]

\* the arguments of the 44 ClienteField(...) calls of _define_fields, in order
FieldsTable ==
    <<
        <<"progressivo", 8, "alpha field", 0>>,
        <<"codice", 6, "alpha field", 8>>,
        <<"ragione_sociale", 80, "alpha field", 14>>,
        <<"cognome", 20, "alpha field", 94>>,
        <<"nome", 20, "alpha field", 114>>,
        <<"indirizzo", 40, "alpha field", 134>>,
        <<"citta", 40, "alpha field", 174>>,
        <<"prov", 3, "alpha field", 214>>,
        <<"telefono", 20, "alpha field", 217>>,
        <<"telefono2", 20, "alpha field", 237>>,
        <<"email", 255, "alpha field", 257>>,
        <<"codice_fiscale", 16, "alpha field", 512>>,
        <<"parole_chiave", 8, "integer", 528>>,
        <<"partita_iva", 16, "alpha field", 536>>,
        <<"bonus", 12, "integer", 552>>,
        <<"libero", 2, "boolean", 564>>,
        <<"cap", 5, "alpha field", 566>>,
        <<"note", 255, "integer", 571>>,
        <<"codice_cosmo", 6, "alpha field", 826>>,
        <<"banca_cosmo", 6, "alpha field", 832>>,
        <<"spedizione", 30, "alpha field", 838>>,
        <<"pagamento_cosmo", 6, "alpha field", 868>>,
        <<"chiuso", 2, "boolean", 874>>,
        <<"codice_sponsor", 6, "alpha field", 876>>,
        <<"sponsor", 2, "boolean", 882>>,
        <<"saldo_sponsor", 12, "integer", 884>>,
        <<"codice_doc", 8, "integer", 896>>,
        <<"stato", 40, "alpha field", 904>>,
        <<"scadenza_bonus", 8, "date", 944>>,
        <<"trasferito_promo", 2, "boolean", 952>>,
        <<"titolo", 20, "alpha field", 954>>,
        <<"copiaoffertada", 2, "boolean", 974>>,
        <<"codicepromo", 6, "alpha field", 976>>,
        <<"promozionale", 2, "boolean", 982>>,
        <<"sitointernet", 255, "integer", 984>>,
        <<"indirizzofiscale", 40, "alpha field", 1239>>,
        <<"cittafiscale", 40, "alpha field", 1279>>,
        <<"provfiscale", 3, "alpha field", 1319>>,
        <<"capfiscale", 5, "alpha field", 1322>>,
        <<"nominativofiscale", 80, "alpha field", 1327>>,
        <<"edificio", 20, "alpha field", 1407>>,
        <<"id", 8, "integer", 1427>>,
        <<"idadvplan", 8, "integer", 1435>>,
        <<"varie", 255, "alpha field", 1443>>
    >>

DefineFields ==
    [i \in 1..Len(FieldsTable) |->
        ClienteField(FieldsTable[i][1], FieldsTable[i][2], FieldsTable[i][3],
                     FieldsTable[i][4])]

\* sum(field.length for field in self.fields)
RECURSIVE SumLengths(_, _)
SumLengths(fs, n) == IF n = 0 THEN 0 ELSE SumLengths(fs, n - 1) + fs[n].length

RecordLengthOffByOne(fs) == SumLengths(fs, Len(fs)) - 1

RecordLength(fs) == SumLengths(fs, Len(fs))

(***************************************************************************)
(* ClienteRecord: the dataclass fields in declaration order, with defaults *)
(***************************************************************************)
ClienteRecordFields ==
    <<
        [name |-> "progressivo", default |-> IntV(0)],
        [name |-> "codice", default |-> StrV(<<>>)],
        [name |-> "ragione_sociale", default |-> StrV(<<>>)],
        [name |-> "cognome", default |-> StrV(<<>>)],
        [name |-> "nome", default |-> StrV(<<>>)],
        [name |-> "indirizzo", default |-> StrV(<<>>)],
        [name |-> "citta", default |-> StrV(<<>>)],
        [name |-> "prov", default |-> StrV(<<>>)],
        [name |-> "telefono", default |-> StrV(<<>>)],
        [name |-> "telefono2", default |-> StrV(<<>>)],
        [name |-> "email", default |-> IntV(0)],
        [name |-> "codice_fiscale", default |-> StrV(<<>>)],
        [name |-> "parole_chiave", default |-> IntV(0)],
        [name |-> "partita_iva", default |-> StrV(<<>>)],
        [name |-> "bonus", default |-> IntV(0)],
        [name |-> "libero", default |-> BoolV(FALSE)],
        [name |-> "cap", default |-> StrV(<<>>)],
        [name |-> "note", default |-> IntV(0)],
        [name |-> "codice_cosmo", default |-> StrV(<<>>)],
        [name |-> "banca_cosmo", default |-> StrV(<<>>)],
        [name |-> "spedizione", default |-> StrV(<<>>)],
        [name |-> "pagamento_cosmo", default |-> StrV(<<>>)],
        [name |-> "chiuso", default |-> BoolV(FALSE)],
        [name |-> "codice_sponsor", default |-> StrV(<<>>)],
        [name |-> "sponsor", default |-> BoolV(FALSE)],
        [name |-> "saldo_sponsor", default |-> IntV(0)],
        [name |-> "codice_doc", default |-> IntV(0)],
        [name |-> "stato", default |-> StrV(<<>>)],
        [name |-> "scadenza_bonus", default |-> NoneV],
        [name |-> "trasferito_promo", default |-> BoolV(FALSE)],
        [name |-> "titolo", default |-> StrV(<<>>)],
        [name |-> "copiaoffertada", default |-> BoolV(FALSE)],
        [name |-> "codicepromo", default |-> StrV(<<>>)],
        [name |-> "promozionale", default |-> BoolV(FALSE)],
        [name |-> "sitointernet", default |-> IntV(0)],
        [name |-> "indirizzofiscale", default |-> StrV(<<>>)],
        [name |-> "cittafiscale", default |-> StrV(<<>>)],
        [name |-> "provfiscale", default |-> StrV(<<>>)],
        [name |-> "capfiscale", default |-> StrV(<<>>)],
        [name |-> "nominativofiscale", default |-> StrV(<<>>)],
        [name |-> "edificio", default |-> StrV(<<>>)],
        [name |-> "id", default |-> IntV(0)],
        [name |-> "idadvplan", default |-> IntV(0)],
        [name |-> "varie", default |-> StrV(<<>>)]
    >>

RecordV(entries) == [t |-> "ClienteRecord", v |-> entries]

\* ClienteRecord(**values), the dict `values` being a function from its keys: an
\* unexpected keyword is a TypeError; a field with no keyword keeps its default
ClienteRecordInit(values) ==
    LET declared == {ClienteRecordFields[k].name : k \in 1..Len(ClienteRecordFields)}
    IN  IF \E key \in DOMAIN values : key \notin declared
        THEN TypeError
        ELSE RecordV([k \in 1..Len(ClienteRecordFields) |->
                 LET name == ClienteRecordFields[k].name IN
                 [name  |-> name,
                  value |-> IF name \in DOMAIN values THEN values[name]
                            ELSE ClienteRecordFields[k].default]])

(***************************************************************************)
(* ClienteRecordReader.parse_record                                        *)
(***************************************************************************)
PadLeft(self_record_length, ln) ==
    IF Len(ln) < self_record_length
    THEN Spaces(self_record_length - Len(ln)) \o ln
    ELSE ln

\* the local `line` after the padding step
Pad(self_record_length, ln) ==
    IF Len(ln) < self_record_length THEN Ljust(ln, self_record_length) ELSE ln

\* the loop over self.fields: values[field_def.name] = parse_value(line[start:end]).
\* The first parse_value that raises ends the call with that exception;
\* otherwise the dict holds, under each name, the value of the last field of
\* that name, and the record is built from it
DecodeFields(self_fields, padded) ==
    LET parsed_value(i) ==
            LET start == self_fields[i].start_pos
                end   == start + self_fields[i].length
            IN  ParseValue(self_fields[i].field_type, Slice(padded, start, end))
        raising == {i \in 1..Len(self_fields) : IsException(parsed_value(i))}
        keys    == {self_fields[i].name : i \in 1..Len(self_fields)}
        last(key) == CHOOSE i \in 1..Len(self_fields) :
                        /\ self_fields[i].name = key
                        /\ \A j \in (i + 1)..Len(self_fields) : self_fields[j].name # key
    IN  IF raising # {}
        THEN parsed_value(CHOOSE i \in raising : \A j \in raising : i <= j)
        ELSE ClienteRecordInit([key \in keys |-> parsed_value(last(key))])

ParseRecord(self_fields, self_record_length, ln) ==
    DecodeFields(self_fields, Pad(self_record_length, ln))

ValidateRecordLengthNoStrip(self_record_length, ln) ==
    Len(ln) = self_record_length

\* ClienteRecordReader.validate_record_length
ValidateRecordLength(self_record_length, ln) ==
    Len(RStrip(ln, {CR, LF})) = self_record_length

FieldInfoEndPastField(field) ==
    [length |-> field.length, type |-> field.field_type,
     start_position |-> field.start_pos,
     end_position |-> field.start_pos + field.length]

\* the value get_field_info stores under field.name
FieldInfo(field) ==
    [length |-> field.length, type |-> field.field_type,
     start_position |-> field.start_pos,
     end_position |-> field.start_pos + field.length - 1]

\* ClienteRecordReader.get_field_info: the dict comprehension over self.fields,
\* as the sequence of its items; a key keeps the place of its first field and
\* holds the value of its last
GetFieldInfo(self_fields) ==
    LET n == Len(self_fields)
        firsts == SelectSeq([i \in 1..n |-> i],
                      LAMBDA i : \A j \in 1..(i - 1) : self_fields[j].name # self_fields[i].name)
        last(key) == CHOOSE i \in 1..n :
                        /\ self_fields[i].name = key
                        /\ \A j \in (i + 1)..n : self_fields[j].name # key
    IN  [k \in 1..Len(firsts) |->
            [key   |-> self_fields[firsts[k]].name,
             value |-> FieldInfo(self_fields[last(self_fields[firsts[k]].name)])]]

(***************************************************************************)
(* Bounds and inputs                                                       *)
(***************************************************************************)
MaxRaw == 3          \* longest raw substring enumerated character by character
MaxContent == 2      \* longest free content written into one field of a line

Strings(alphabet, n) == UNION {[1..k -> alphabet] : k \in 0..n}

FieldTypes == {"alpha field", "integer", "boolean", "date"}

FieldAlphabet == {SP, "0", "1", "7", "-", "s", "S", SUP2}

DigitChar(d) == <<"0", "1", "2", "3", "4", "5", "6", "7", "8", "9">>[d + 1]

\* n written with w decimal digits, zero-filled
RECURSIVE ZeroFill(_, _)
ZeroFill(n, w) == IF w = 0 THEN <<>> ELSE ZeroFill(n \div 10, w - 1) \o <<DigitChar(n % 10)>>

Years  == {0, 1, 1900, 2000, 2023, 2024, 2025, 9999}
Months == 0..13
Days   == {0, 1, 28, 29, 30, 31, 32}

YYYYMMDD(y, m, d) == ZeroFill(y, 4) \o ZeroFill(m, 2) \o ZeroFill(d, 2)

\* eight-character date fields, the same surrounded by whitespace, cut short,
\* grown by one digit, and with one character that is no decimal digit
DateInputs ==
    UNION { LET s == YYYYMMDD(y, m, d) IN
            { s, <<SP>> \o s \o <<SP, TAB>>, SubSeq(s, 1, 7), s \o <<"0">>,
              SubSeq(s, 1, 6) \o <<"X", "X">>, SubSeq(s, 1, 7) \o <<SUP2>>,
              <<SUP2>> \o SubSeq(s, 2, 8), <<"-">> \o SubSeq(s, 2, 8) }
          : y \in Years, m \in Months, d \in Days }

\* the words a boolean field may hold, in several spellings
TokenInputs ==
    LET words == { <<"T", "R", "U", "E">>, <<"t", "r", "u", "e">>, <<"T", "r", "u", "e">>,
                   <<"Y">>, <<"y">>, <<"S">>, <<"s">>, <<"S", "I">>, <<"s", "i">>,
                   <<"S", "i">>, <<"N", "O">>, <<"n", "o">>, <<"N">>, <<"1">>, <<"0">>,
                   <<"Y", "E", "S">>, <<"S", "I", "S">>, <<"1", "1">>, <<"0", "1">>,
                   <<"T", "R", "U">> }
    IN  words \cup { <<SP>> \o w : w \in words } \cup { w \o <<SP>> : w \in words }
              \cup { <<TAB>> \o w \o <<LF>> : w \in words }

RawInputs == Strings(FieldAlphabet, MaxRaw) \cup DateInputs \cup TokenInputs

LineAlphabet == {"1", "a", SUP2}

LineContents == Strings(LineAlphabet, MaxContent)

TailKinds == {"short", "near", "exact", "over"}

\* a line that is blank except for `content`, written from the first column of
\* catalogue field f on, and that ends right after the content ("short"), 10
\* columns before the record length ("near"), at the record length ("exact"),
\* or beyond it with further characters ("over")
MakeLine(f, content, tail) ==
    LET head == Spaces(DefineFields[f].start_pos) \o content
        full == RecordLength(DefineFields)
    IN  CASE tail = "short" -> head
          [] tail = "near"  -> Ljust(head, full - 10)
          [] tail = "exact" -> Ljust(head, full)
          [] tail = "over"  -> Ljust(head, full) \o <<"9">> \o content

RecordLines ==
    { MakeLine(f, c, k) : f \in 1..Len(DefineFields), c \in LineContents, k \in TailKinds }

MaxLines == 3        \* most lines in a file

\* the lines a file yields: a line keeps its terminator, which universal
\* newlines mode has turned into LF
BlankLine   == <<LF>>
SpaceLine   == <<SP, TAB, SP, LF>>
ExactLine   == MakeLine(1, <<"1", "a">>, "exact") \o <<LF>>
ShortLine   == MakeLine(16, <<"1">>, "short") \o <<LF>>
FailingLine == MakeLine(13, <<"1", SUP2>>, "near") \o <<LF>>
LastLine    == MakeLine(2, <<"a">>, "short")

\* every line but the last ends with its terminator
Files ==
    { f \in UNION {[1..n -> {BlankLine, SpaceLine, ExactLine, ShortLine, FailingLine,
                             LastLine}] : n \in 0..MaxLines} :
        \A i \in 1..(Len(f) - 1) : f[i] # LastLine }

MaxCfgFields == 2    \* most descriptors in a supplied catalogue
MaxCfgLen == 2       \* longest field of a supplied catalogue
MaxCfgStart == 3     \* largest start offset of a supplied catalogue

\* catalogues a subclass can return from an overridden _define_fields
Catalogues ==
    UNION { { [i \in 1..n |-> ClienteField(FieldsTable[i][1], lens[i], "alpha field",
                                            starts[i])] :
                lens \in [1..n -> 1..MaxCfgLen], starts \in [1..n -> 0..MaxCfgStart] }
          : n \in 1..MaxCfgFields }

CfgLines == Strings({SP, "a"}, MaxCfgLen)

(***************************************************************************)
(* Writing values into a fixed-width line, as generate_sample_data.py does *)
(***************************************************************************)
\* str(n) for an int n >= 0
RECURSIVE IntToStr(_)
IntToStr(n) == IF n < 10 THEN <<DigitChar(n)>> ELSE IntToStr(n \div 10) \o <<DigitChar(n % 10)>>

\* f'{n:0{w}d}' for n >= 0: at least w digits, zero-filled on the left
FormatD(n, w) ==
    LET digits == IntToStr(n) IN
    IF Len(digits) >= w THEN digits ELSE [i \in 1..(w - Len(digits)) |-> "0"] \o digits

\* str(value)
PyStr(value) ==
    CASE value.t = "str"  -> value.v
      [] value.t = "int"  -> IntToStr(value.v[1])
      [] value.t = "bool" -> IF value.v[1] THEN <<"T", "r", "u", "e">>
                             ELSE <<"F", "a", "l", "s", "e">>
      [] value.t = "date" -> FormatD(value.v[1], 4) \o <<"-">> \o FormatD(value.v[2], 2)
                             \o <<"-">> \o FormatD(value.v[3], 2)
      [] value.t = "None" -> <<"N", "o", "n", "e">>

FormattedUnpadded(value, length) == Slice(PyStr(value), 0, length)

FormattedUntruncated(value, length) == Ljust(PyStr(value), length)

\* formatted_value = str(value)[:length].ljust(length)
Formatted(value, length) == Ljust(Slice(PyStr(value), 0, length), length)

\* getattr(record, name)
Attr(record, name) ==
    record.v[CHOOSE k \in 1..Len(record.v) : record.v[k].name = name].value

\* the loop `record += formatted_value` over the first n fields, the values being
\* those of a decoded record and the lengths those of the catalogue
RECURSIVE WriteFields(_, _, _)
WriteFields(self_fields, record, n) ==
    IF n = 0 THEN <<>>
    ELSE WriteFields(self_fields, record, n - 1)
            \o Formatted(Attr(record, self_fields[n].name), self_fields[n].length)

WriteRecord(self_fields, record) == WriteFields(self_fields, record, Len(self_fields))

(***************************************************************************)
(* generate_sample_data.py                                                 *)
(***************************************************************************)
\* chr(code) for the codes of the letters A to E
Chr(code) == <<"A", "B", "C", "D", "E">>[code - 64]

\* str(12345678000 + n) for n >= 0, the sum being split at the thousands
Plus12345678000(n) == IntToStr(12345678 + (n \div 1000)) \o FormatD(n % 1000, 3)

\* fields_data of create_sample_record(record_num), number being record_num:
\* (name, value, length) for each field
SampleFieldsData(number) ==
    << <<"progressivo", FormatD(number, 8), 8>>,
       <<"codice", <<"C", "L", "I">> \o FormatD(number, 3), 6>>,
       <<"ragione_sociale", <<"A", "C", "M", "E", " ", "C", "o", "r", "p", "o", "r",
          "a", "t", "i", "o", "n", " ", "S", "p", "A", " ",
          "#">> \o IntToStr(number), 80>>,
       <<"cognome", <<"R", "o", "s", "s", "i">>, 20>>,
       <<"nome", <<"M", "a", "r", "i", "o">>, 20>>,
       <<"indirizzo", <<"V", "i", "a", " ", "R", "o", "m", "a",
          " ">> \o IntToStr(100 + number), 40>>,
       <<"citta", <<"M", "i", "l", "a", "n", "o">>, 40>>,
       <<"prov", <<"M", "I">>, 3>>,
       <<"telefono", <<"0", "2", "-">> \o IntToStr(12345000 + number), 20>>,
       <<"telefono2", <<"3", "3", "5", "-">> \o IntToStr(1234000 + number), 20>>,
       <<"email", <<"2", "5", "5">>, 255>>,
       <<"codice_fiscale", <<"R", "S", "S", "M", "R", "A", "8", "0", "A", "0", "1",
          "F">> \o IntToStr(200 + number) \o <<"X">>, 16>>,
       <<"parole_chiave", <<"1", "2", "3", "4", "5", "6", "7", "8">>, 8>>,
       <<"partita_iva", Plus12345678000(number), 16>>,
       <<"bonus", FormatD(1200 + (number * 100), 12), 12>>,
       <<"libero", <<" ", "1">>, 2>>,
       <<"cap", <<"2", "0", "1", "0", "0">>, 5>>,
       <<"note", <<"2", "5", "5">>, 255>>,
       <<"codice_cosmo", <<"C", "O", "S">> \o FormatD(number, 3), 6>>,
       <<"banca_cosmo", <<"B", "A", "N", "0", "0", "1">>, 6>>,
       <<"spedizione", <<"S", "t", "a", "n", "d", "a", "r", "d", " ", "s", "h", "i",
          "p", "p", "i", "n", "g", " ", "m", "e", "t", "h", "o", "d">>, 30>>,
       <<"pagamento_cosmo", <<"P", "A", "G", "0", "0", "1">>, 6>>,
       <<"chiuso", <<" ", "0">>, 2>>,
       <<"codice_sponsor", <<"S", "P", "O">> \o FormatD(number, 3), 6>>,
       <<"sponsor", <<" ", "1">>, 2>>,
       <<"saldo_sponsor", FormatD(5000 + (number * 250), 12), 12>>,
       <<"codice_doc", FormatD(number, 8), 8>>,
       <<"stato", <<"A", "c", "t", "i", "v", "e">>, 40>>,
       <<"scadenza_bonus", <<"2", "0", "2", "5", "1", "2", "3", "1">>, 8>>,
       <<"trasferito_promo", <<" ", "0">>, 2>>,
       <<"titolo", <<"D", "o", "t", "t", ".">>, 20>>,
       <<"copia_offerta_da", <<" ", "0">>, 2>>,
       <<"codice_promo", <<"P", "R", "O", "M", "O">> \o IntToStr(number), 6>>,
       <<"promozionale", <<" ", "1">>, 2>>,
       <<"sito_internet", <<"2", "5", "5">>, 255>>,
       <<"indirizzo_fiscale", <<"V", "i", "a", " ", "R", "o", "m", "a",
          " ">> \o IntToStr(100 + number), 40>>,
       <<"citta_fiscale", <<"M", "i", "l", "a", "n", "o">>, 40>>,
       <<"prov_fiscale", <<"M", "I">>, 3>>,
       <<"cap_fiscale", <<"2", "0", "1", "0", "0">>, 5>>,
       <<"nominativo_fiscale", <<"A", "C", "M", "E", " ", "C", "o", "r", "p", "o",
          "r", "a", "t", "i", "o", "n", " ", "S", "p", "A", " ",
          "#">> \o IntToStr(number), 80>>,
       <<"edificio", <<"B", "u", "i", "l", "d", "i", "n", "g",
          " ">> \o <<Chr(65 + (number % 5))>>, 20>>,
       <<"id", FormatD(number, 8), 8>>,
       <<"id_adv_plan", FormatD(number, 8), 8>>,
       <<"varie", <<"V", "a", "r", "i", "o", "u", "s", " ", "i", "n", "f", "o", "r",
          "m", "a", "t", "i", "o", "n", " ", "f", "o", "r", " ", "r", "e", "c", "o",
          "r", "d", " ">> \o IntToStr(number), 255>> >>

\* the variations create_diverse_sample_records cycles through
companies ==
    << <<"A", "C", "M", "E", " ", "C", "o", "r", "p", "o", "r", "a", "t", "i", "o",
          "n", " ", "S", "p", "A">>,
       <<"B", "e", "t", "a", " ", "I", "n", "d", "u", "s", "t", "r", "i", "e", "s",
          " ", "S", "r", "l">>,
       <<"G", "a", "m", "m", "a", " ", "S", "o", "l", "u", "t", "i", "o", "n", "s",
          " ", "L", "t", "d">>,
       <<"D", "e", "l", "t", "a", " ", "M", "a", "n", "u", "f", "a", "c", "t", "u",
          "r", "i", "n", "g">>,
       <<"E", "p", "s", "i", "l", "o", "n", " ", "S", "e", "r", "v", "i", "c", "e",
          "s", " ", "S", "A">> >>

names ==
    << <<<<"M", "a", "r", "i", "o">>, <<"R", "o", "s", "s", "i">>>>,
       <<<<"L", "u", "i", "g", "i">>, <<"V", "e", "r", "d", "i">>>>,
       <<<<"A", "n", "n", "a">>, <<"B", "i", "a", "n", "c", "h", "i">>>>,
       <<<<"P", "a", "o", "l", "o">>, <<"N", "e", "r", "i">>>>,
       <<<<"M", "a", "r", "i", "a">>, <<"F", "e", "r", "r", "a", "r", "i">>>> >>

cities ==
    << <<<<"M", "i", "l", "a", "n", "o">>, <<"M", "I">>, <<"2", "0", "1", "0", "0">>>>,
       <<<<"R", "o", "m", "a">>, <<"R", "M">>, <<"0", "0", "1", "0", "0">>>>,
       <<<<"N", "a", "p", "o", "l", "i">>, <<"N", "A">>, <<"8", "0", "1", "0", "0">>>>,
       <<<<"T", "o", "r", "i", "n", "o">>, <<"T", "O">>, <<"1", "0", "1", "0", "0">>>>,
       <<<<"B", "o", "l", "o", "g", "n", "a">>, <<"B", "O">>, <<"4", "0", "1", "0", "0">>>> >>

\* fields_data of create_diverse_sample_records in the iteration for index i
DiverseFieldsData(i) ==
    LET number   == i + 1   \* record_num
        company  == companies[(i % Len(companies)) + 1]
        name     == names[(i % Len(names)) + 1][1]
        surname  == names[(i % Len(names)) + 1][2]
        city     == cities[(i % Len(cities)) + 1][1]
        province == cities[(i % Len(cities)) + 1][2]
        cap      == cities[(i % Len(cities)) + 1][3]
    IN  << <<"progressivo", FormatD(number, 8), 8>>,
           <<"codice", <<"C", "L", "I">> \o FormatD(number, 3), 6>>,
           <<"ragione_sociale", company, 80>>,
           <<"cognome", surname, 20>>,
           <<"nome", name, 20>>,
           <<"indirizzo", <<"V", "i", "a",
              " ">> \o surname \o <<" ">> \o IntToStr(100 + number), 40>>,
           <<"citta", city, 40>>,
           <<"prov", province, 3>>,
           <<"telefono",
              <<"0">> \o IntToStr(i + 1) \o <<"-">> \o IntToStr(12345000 + number),
              20>>,
           <<"telefono2", <<"3",
              "3">> \o IntToStr(i + 1) \o <<"-">> \o IntToStr(1234000 + number),
              20>>,
           <<"email", <<"2", "5", "5">>, 255>>,
           <<"codice_fiscale", Upper(Slice(surname, 0, 3)) \o Upper(Slice(name, 0,
              3)) \o <<"8", "0", "A", "0", "1",
              "F">> \o IntToStr(200 + number) \o <<"X">>, 16>>,
           <<"parole_chiave", FormatD(12340000 + number, 8), 8>>,
           <<"partita_iva", Plus12345678000(number * 1000), 16>>,
           <<"bonus", FormatD(1200 + (number * 100), 12), 12>>,
           <<"libero", <<" ">> \o IntToStr(number % 2), 2>>,
           <<"cap", cap, 5>>,
           <<"note", <<"2", "5", "5">>, 255>>,
           <<"codice_cosmo", <<"C", "O", "S">> \o FormatD(number, 3), 6>>,
           <<"banca_cosmo", <<"B", "A", "N">> \o FormatD(number, 3), 6>>,
           <<"spedizione", <<<<"S", "t", "a", "n", "d", "a", "r", "d">>, <<"E", "x",
              "p", "r", "e", "s", "s">>, <<"P", "r", "e", "m", "i", "u",
              "m">>>>[(number % 3) + 1] \o <<" ", "s", "h", "i", "p", "p", "i",
              "n", "g">>, 30>>,
           <<"pagamento_cosmo", <<"P", "A", "G">> \o FormatD(number, 3), 6>>,
           <<"chiuso", <<" ">> \o IntToStr((number + 1) % 2), 2>>,
           <<"codice_sponsor", <<"S", "P", "O">> \o FormatD(number, 3), 6>>,
           <<"sponsor", <<" ">> \o IntToStr(number % 2), 2>>,
           <<"saldo_sponsor", FormatD(5000 + (number * 250), 12), 12>>,
           <<"codice_doc", FormatD(number, 8), 8>>,
           <<"stato", <<<<"A", "c", "t", "i", "v", "e">>, <<"P", "e", "n", "d", "i",
              "n", "g">>, <<"I", "n", "a", "c", "t", "i", "v",
              "e">>>>[(number % 3) + 1], 40>>,
           <<"scadenza_bonus", <<"2", "0", "2",
              "5">> \o FormatD((number % 12) + 1,
              2) \o FormatD((number % 28) + 1, 2), 8>>,
           <<"trasferito_promo", <<" ">> \o IntToStr((number + 1) % 2), 2>>,
           <<"titolo", <<<<"D", "o", "t", "t", ".">>, <<"I", "n", "g", ".">>, <<"P",
              "r", "o", "f", ".">>, <<"S", "i", "g", ".">>>>[(number % 4) + 1], 20>>,
           <<"copia_offerta_da", <<" ">> \o IntToStr(number % 2), 2>>,
           <<"codice_promo", <<"P", "R", "O", "M", "O">> \o IntToStr(number), 6>>,
           <<"promozionale", <<" ">> \o IntToStr(number % 2), 2>>,
           <<"sito_internet", <<"2", "5", "5">>, 255>>,
           <<"indirizzo_fiscale", <<"V", "i", "a",
              " ">> \o surname \o <<" ">> \o IntToStr(100 + number), 40>>,
           <<"citta_fiscale", city, 40>>,
           <<"prov_fiscale", province, 3>>,
           <<"cap_fiscale", cap, 5>>,
           <<"nominativo_fiscale", company, 80>>,
           <<"edificio", <<"B", "u", "i", "l", "d", "i", "n", "g",
              " ">> \o <<Chr(65 + (number % 5))>>, 20>>,
           <<"id", FormatD(number, 8), 8>>,
           <<"id_adv_plan", FormatD(number, 8), 8>>,
           <<"varie", <<"R", "e", "c", "o", "r", "d",
              " ">> \o IntToStr(number) \o <<" ", "-",
              " ">> \o name \o <<" ">> \o surname \o <<" ", "f", "r", "o", "m",
              " ">> \o city, 255>> >>

\* the loop `record += formatted_value` over the first n entries of fields_data
RECURSIVE BuildRecord(_, _)
BuildRecord(fields_data, n) ==
    IF n = 0 THEN <<>>
    ELSE BuildRecord(fields_data, n - 1)
            \o Formatted(StrV(fields_data[n][2]), fields_data[n][3])

CreateSampleRecord(number) ==
    LET fields_data == SampleFieldsData(number) IN
    BuildRecord(fields_data, Len(fields_data))

\* the list create_diverse_sample_records(num_records) returns
CreateDiverseSampleRecords(count) ==
    [k \in 1..count |->
        LET fields_data == DiverseFieldsData(k - 1) IN
        BuildRecord(fields_data, Len(fields_data))]

(***************************************************************************)
(* Specifications                                                          *)
(***************************************************************************)
\* the reader as ClienteRecordReader.__init__ leaves it
Constructed ==
    /\ fields_spec = DefineFields
    /\ fields = fields_spec
    /\ record_length = RecordLength(fields)

RoundTripIdle == encoded = <<>> /\ redecoded = NotYet

GenIdle == record_num = 0 /\ num_records = 0 /\ generated = <<>>

MainIdle == valid_count = NotYet /\ invalid_count = NotYet

AuxIdle ==
    /\ checked = <<>> /\ is_valid = NotYet
    /\ field_info = <<>>
    /\ RoundTripIdle /\ GenIdle /\ MainIdle

Idle ==
    /\ AuxIdle
    /\ raw = <<>> /\ ftype = "alpha field" /\ out = NotYet
    /\ line = <<>> /\ work = <<>> /\ rec = NotYet
    /\ file = <<>> /\ line_num = 0 /\ records = <<>> /\ is_open = FALSE
    /\ result = NotYet /\ stdout = <<>>

\* ---- one call of ClienteField.parse_value ----
InitField ==
    /\ AuxIdle
    /\ Constructed
    /\ pc = "field_call"
    /\ raw \in RawInputs
    /\ ftype \in FieldTypes
    /\ out = NotYet
    /\ line = <<>> /\ work = <<>> /\ rec = NotYet
    /\ file = <<>> /\ line_num = 0 /\ records = <<>> /\ is_open = FALSE
    /\ result = NotYet /\ stdout = <<>>

ParseValueCall ==
    /\ pc = "field_call"
    /\ out' = ParseValue(ftype, raw)
    /\ pc' = "field_done"
    /\ UNCHANGED <<fields, record_length, fields_spec, raw, ftype, line, work, rec,
                   file, line_num, records, stdout, is_open, result, aux>>

NextField == ParseValueCall

SpecField == InitField /\ [][NextField]_vars

\* ---- one call of ClienteRecordReader.parse_record ----
InitRecord ==
    /\ AuxIdle
    /\ Constructed
    /\ pc = "record_call"
    /\ line \in RecordLines
    /\ work = <<>> /\ rec = NotYet
    /\ raw = <<>> /\ ftype = "alpha field" /\ out = NotYet
    /\ file = <<>> /\ line_num = 0 /\ records = <<>> /\ is_open = FALSE
    /\ result = NotYet /\ stdout = <<>>

ParseRecordCall ==
    /\ pc = "record_call"
    /\ work' = Pad(record_length, line)
    /\ rec' = ParseRecord(fields, record_length, line)
    /\ pc' = "record_done"
    /\ UNCHANGED <<fields, record_length, fields_spec, raw, ftype, out, line,
                   file, line_num, records, stdout, is_open, result, aux>>

NextRecord == ParseRecordCall

SpecRecord == InitRecord /\ [][NextRecord]_vars

\* ---- parse_record, then the record written back and decoded again ----
RoundTripAlphabet == {SP, "0", "1", "a"}

\* lines 10 columns short of the record length, blank except for a content
\* that can start or end with spaces and can have leading zeros
RoundTripLines ==
    { MakeLine(f, c, "near") : f \in 1..Len(DefineFields),
                               c \in Strings(RoundTripAlphabet, MaxContent) }

InitRoundTrip ==
    /\ Constructed
    /\ pc = "record_call"
    /\ line \in RoundTripLines
    /\ work = <<>> /\ rec = NotYet
    /\ raw = <<>> /\ ftype = "alpha field" /\ out = NotYet
    /\ file = <<>> /\ line_num = 0 /\ records = <<>> /\ is_open = FALSE
    /\ result = NotYet /\ stdout = <<>>
    /\ AuxIdle

\* the record parse_record produced is written back and decoded again
RoundTrip ==
    /\ pc = "record_done"
    /\ ~IsException(rec)
    /\ encoded' = WriteRecord(fields, rec)
    /\ redecoded' = ParseRecord(fields, record_length, encoded')
    /\ pc' = "round_trip_done"
    /\ UNCHANGED <<fields, record_length, fields_spec, raw, ftype, out, line, work,
                   rec, file, line_num, records, stdout, is_open, result,
                   validate_vars, field_info, gen_vars, main_vars>>

NextRoundTrip == ParseRecordCall \/ RoundTrip

SpecRoundTrip == InitRoundTrip /\ [][NextRoundTrip]_vars

\* ---- the sample-data generator, then validate_record_length on a line of it ----
MaxRecordNum == 12    \* largest record number given to create_sample_record
MaxNumRecords == 5    \* most records asked of create_diverse_sample_records

InitGen ==
    /\ Constructed
    /\ pc = "gen_call"
    /\ record_num \in 0..MaxRecordNum
    /\ num_records \in 0..MaxNumRecords
    /\ generated = <<>>
    /\ checked = <<>> /\ is_valid = NotYet
    /\ field_info = <<>>
    /\ RoundTripIdle /\ MainIdle
    /\ raw = <<>> /\ ftype = "alpha field" /\ out = NotYet
    /\ line = <<>> /\ work = <<>> /\ rec = NotYet
    /\ file = <<>> /\ line_num = 0 /\ records = <<>> /\ is_open = FALSE
    /\ result = NotYet /\ stdout = <<>>

CreateSampleRecordCall ==
    /\ pc = "gen_call"
    /\ generated' = <<CreateSampleRecord(record_num)>>
    /\ pc' = "generated"
    /\ UNCHANGED <<fields, record_length, fields_spec, raw, ftype, out, line, work,
                   rec, file, line_num, records, stdout, is_open, result,
                   validate_vars, field_info, roundtrip_vars, main_vars,
                   record_num, num_records>>

CreateDiverseSampleRecordsCall ==
    /\ pc = "gen_call"
    /\ generated' = CreateDiverseSampleRecords(num_records)
    /\ pc' = "generated"
    /\ UNCHANGED <<fields, record_length, fields_spec, raw, ftype, out, line, work,
                   rec, file, line_num, records, stdout, is_open, result,
                   validate_vars, field_info, roundtrip_vars, main_vars,
                   record_num, num_records>>

\* validate_record_length on one of the generated lines
ValidateGeneratedLine ==
    /\ pc = "generated"
    /\ \E k \in 1..Len(generated) :
          /\ checked' = generated[k]
          /\ is_valid' = BoolV(ValidateRecordLength(record_length, generated[k]))
    /\ pc' = "gen_validated"
    /\ UNCHANGED <<fields, record_length, fields_spec, raw, ftype, out, line, work,
                   rec, file, line_num, records, stdout, is_open, result,
                   field_info, roundtrip_vars, main_vars, gen_vars>>

NextGen ==
    CreateSampleRecordCall \/ CreateDiverseSampleRecordsCall \/ ValidateGeneratedLine

SpecGen == InitGen /\ [][NextGen]_vars

\* ---- one call of ClienteRecordReader.validate_record_length ----
\* what may end the line handed to validate_record_length
Terminators == { <<>>, <<LF>>, <<CR, LF>>, <<LF, LF>>, <<CR>> }

\* the lengths of the lines handed over, around the record length
ValidateLengths ==
    LET full == RecordLength(DefineFields) IN
    {0, 1, full - 10, full - 1, full, full + 1, full + 10}

\* some content, space-filled to one of the lengths, and a terminator
ValidateLines ==
    { Ljust(c, n) \o term : c \in LineContents, n \in ValidateLengths, term \in Terminators }

InitValidate ==
    /\ Constructed
    /\ pc = "validate_call"
    /\ checked \in ValidateLines
    /\ is_valid = NotYet
    /\ field_info = <<>>
    /\ RoundTripIdle /\ GenIdle /\ MainIdle
    /\ raw = <<>> /\ ftype = "alpha field" /\ out = NotYet
    /\ line = <<>> /\ work = <<>> /\ rec = NotYet
    /\ file = <<>> /\ line_num = 0 /\ records = <<>> /\ is_open = FALSE
    /\ result = NotYet /\ stdout = <<>>

ValidateRecordLengthCall ==
    /\ pc = "validate_call"
    /\ is_valid' = BoolV(ValidateRecordLength(record_length, checked))
    /\ pc' = "validated"
    /\ UNCHANGED <<fields, record_length, fields_spec, raw, ftype, out, line, work,
                   rec, file, line_num, records, stdout, is_open, result, checked,
                   field_info, roundtrip_vars, gen_vars, main_vars>>

NextValidate == ValidateRecordLengthCall

SpecValidate == InitValidate /\ [][NextValidate]_vars

(***************************************************************************)
(* ClienteRecordReader.read_file                                           *)
(***************************************************************************)
ListV(items) == [t |-> "list", v |-> items]

\* line.rstrip('\r\n')
CleanLine(ln) == RStrip(ln, {CR, LF})

SkipsOnlyEmpty(clean_line) == clean_line = <<>>

\* `if clean_line.strip()` is false: the line is skipped
SkipsLine(clean_line) == Strip(clean_line) = <<>>

LineNumberFromZero(index) == index - 1

\* enumerate(file, 1): the number of the index-th line the file yields
LineNumber(index) == index

AfterErrorAbort(f, n) == Len(f)

\* the except clause lies inside the for loop: after the handler for line n
\* the loop goes on with the line after n
AfterError(f, n) == n

CloseAtEndOnly(raising) == raising

\* whether the file is open once the with block is left, normally or by an
\* exception: the with statement closes it either way
WithExit(raising) == FALSE

\* exceptions that no clause of read_file catches
OSError            == [t |-> "OSError", v |-> <<>>]
UnicodeDecodeError == [t |-> "UnicodeDecodeError", v |-> <<>>]

\* the two print() calls of the except clause
ErrorOutput(n, e, ln) ==
    << [kind |-> "Error parsing line", line_num |-> n, message |-> e.t, content |-> <<>>],
       [kind |-> "Line content", line_num |-> n, message |-> "", content |-> ln] >>

Init ==
    /\ AuxIdle
    /\ Constructed
    /\ pc = "read_call"
    /\ file \in Files
    /\ line_num = 0 /\ records = <<>> /\ is_open = FALSE
    /\ result = NotYet /\ stdout = <<>>
    /\ raw = <<>> /\ ftype = "alpha field" /\ out = NotYet
    /\ line = <<>> /\ work = <<>> /\ rec = NotYet

\* records = []; with open(filename, 'r', encoding=encoding) as file:
ReadFileOpen ==
    /\ pc = "read_call"
    /\ records' = <<>>
    /\ is_open' = TRUE
    /\ line_num' = 0
    /\ pc' = "loop"
    /\ UNCHANGED <<fields, record_length, fields_spec, raw, ftype, out, line, work,
                   rec, file, stdout, result, aux>>

\* one iteration of the for loop, on a line that is skipped
SkipLine ==
    /\ pc = "loop"
    /\ line_num < Len(file)
    /\ SkipsLine(CleanLine(file[line_num + 1]))
    /\ line_num' = line_num + 1
    /\ UNCHANGED <<pc, fields, record_length, fields_spec, raw, ftype, out, line,
                   work, rec, file, records, stdout, is_open, result, aux>>

\* one iteration of the for loop, on a line that parse_record decodes
DecodeLine ==
    /\ pc = "loop"
    /\ line_num < Len(file)
    /\ LET clean_line == CleanLine(file[line_num + 1])
           record     == ParseRecord(fields, record_length, clean_line)
       IN  /\ ~SkipsLine(clean_line)
           /\ ~IsException(record)
           /\ records' = Append(records, record)
    /\ line_num' = line_num + 1
    /\ UNCHANGED <<pc, fields, record_length, fields_spec, raw, ftype, out, line,
                   work, rec, file, stdout, is_open, result, aux>>

\* one iteration of the for loop, on a line for which parse_record raises
DecodeError ==
    /\ pc = "loop"
    /\ line_num < Len(file)
    /\ LET clean_line == CleanLine(file[line_num + 1])
           record     == ParseRecord(fields, record_length, clean_line)
       IN  /\ ~SkipsLine(clean_line)
           /\ IsException(record)
           /\ stdout' = stdout \o ErrorOutput(LineNumber(line_num + 1), record,
                                              file[line_num + 1])
    /\ line_num' = AfterError(file, line_num + 1)
    /\ UNCHANGED <<pc, fields, record_length, fields_spec, raw, ftype, out, line,
                   work, rec, file, records, is_open, result, aux>>

\* the file is exhausted: the with block closes it, and `return records`
ReadFileReturn ==
    /\ pc = "loop"
    /\ line_num = Len(file)
    /\ is_open' = WithExit(FALSE)
    /\ result' = ListV(records)
    /\ pc' = "returned"
    /\ UNCHANGED <<fields, record_length, fields_spec, raw, ftype, out, line, work,
                   rec, file, line_num, records, stdout, aux>>

\* open() raises (no such file, no permission): the exception leaves read_file
\* before there is a file to close
OpenFails ==
    /\ pc = "read_call"
    /\ records' = <<>>
    /\ result' = OSError
    /\ pc' = "raised"
    /\ UNCHANGED <<fields, record_length, fields_spec, raw, ftype, out, line, work,
                   rec, file, line_num, stdout, is_open, aux>>

\* reading the next line raises (an I/O error, bytes that are not UTF-8): the
\* for statement is outside the try block, so the exception leaves the with
\* block and read_file
ReadFails ==
    /\ pc = "loop"
    /\ result' \in {OSError, UnicodeDecodeError}
    /\ is_open' = WithExit(TRUE)
    /\ pc' = "raised"
    /\ UNCHANGED <<fields, record_length, fields_spec, raw, ftype, out, line, work,
                   rec, file, line_num, records, stdout, aux>>

\* ---- main, after reader.read_file(filename) has returned ----
CountedAll(clean_line) == TRUE

\* `if clean_line.strip():` in the validation pass: the line is checked
Counted(clean_line) == Strip(clean_line) # <<>>

\* the numbers of the lines of f the validation pass finds valid (want = TRUE)
\* or invalid (want = FALSE), in file order
CheckedLines(self_record_length, f, want) ==
    SelectSeq([i \in 1..Len(f) |-> i],
              LAMBDA i : /\ Counted(CleanLine(f[i]))
                         /\ ValidateRecordLength(self_record_length, CleanLine(f[i])) = want)

\* the print() calls of the validation pass: one for each invalid line, then
\* the summary
ValidationOutput(self_record_length, f) ==
    LET invalid == CheckedLines(self_record_length, f, FALSE)
        valid   == CheckedLines(self_record_length, f, TRUE)
    IN  [k \in 1..Len(invalid) |->
            [kind |-> "Invalid length", line_num |-> LineNumber(invalid[k]),
             message |-> "", content |-> CleanLine(f[invalid[k]])]]
        \o << [kind |-> IF Len(invalid) = 0 THEN "All records have valid length"
                        ELSE "Found invalid records",
               line_num |-> 0, message |-> "", content |-> <<>>] >>

\* `if records:` holds: the file is opened again and every line is counted as
\* valid or invalid, unless it is blank
MainValidation ==
    /\ pc = "returned"
    /\ result.v # <<>>
    /\ valid_count' = IntV(Len(CheckedLines(record_length, file, TRUE)))
    /\ invalid_count' = IntV(Len(CheckedLines(record_length, file, FALSE)))
    /\ stdout' = stdout \o ValidationOutput(record_length, file)
    /\ pc' = "main_done"
    /\ UNCHANGED <<fields, record_length, fields_spec, raw, ftype, out, line, work,
                   rec, file, line_num, records, is_open, result,
                   validate_vars, field_info, roundtrip_vars, gen_vars>>

\* `if records:` fails: no validation pass
MainNoRecords ==
    /\ pc = "returned"
    /\ result.v = <<>>
    /\ stdout' = Append(stdout, [kind |-> "No valid records found", line_num |-> 0,
                                 message |-> "", content |-> <<>>])
    /\ pc' = "main_done"
    /\ UNCHANGED <<fields, record_length, fields_spec, raw, ftype, out, line, work,
                   rec, file, line_num, records, is_open, result, aux>>

Next ==
    \/ ReadFileOpen \/ SkipLine \/ DecodeLine \/ DecodeError \/ ReadFileReturn
    \/ OpenFails \/ ReadFails
    \/ MainValidation \/ MainNoRecords

Spec == Init /\ [][Next]_vars

(***************************************************************************)
(* ClienteRecordReader.__init__ on the catalogue _define_fields returns    *)
(***************************************************************************)
InitCfg ==
    /\ pc = "new"
    /\ fields_spec \in Catalogues \cup {DefineFields}
    /\ fields = <<>>
    /\ record_length = 0
    /\ Idle

\* self.fields = self._define_fields(); self.record_length = sum(...)
Construct ==
    /\ pc = "new"
    /\ fields' = fields_spec
    /\ record_length' = RecordLength(fields_spec)
    /\ pc' = "constructed"
    /\ UNCHANGED <<fields_spec, raw, ftype, out, line, work, rec, file, line_num,
                   records, stdout, is_open, result, aux>>

\* parse_record on the constructed reader
ParseRecordCfg ==
    /\ pc = "constructed"
    /\ \E ln \in CfgLines :
          /\ line' = ln
          /\ work' = Pad(record_length, ln)
          /\ rec' = ParseRecord(fields, record_length, ln)
    /\ pc' = "decoded"
    /\ UNCHANGED <<fields, record_length, fields_spec, raw, ftype, out, file,
                   line_num, records, stdout, is_open, result, aux>>

\* get_field_info on the constructed reader
GetFieldInfoCall ==
    /\ pc = "constructed"
    /\ field_info' = GetFieldInfo(fields)
    /\ pc' = "info"
    /\ UNCHANGED <<fields, record_length, fields_spec, raw, ftype, out, line, work,
                   rec, file, line_num, records, stdout, is_open, result,
                   validate_vars, roundtrip_vars, gen_vars, main_vars>>

NextCfg == Construct \/ ParseRecordCfg \/ GetFieldInfoCall

SpecCfg == InitCfg /\ [][NextCfg]_vars

(***************************************************************************)
(* Claims                                                                  *)
(***************************************************************************)
\* every start offset is the sum of the lengths of the descriptors before it
Tiles(fs) == \A i \in 1..Len(fs) : fs[i].start_pos = SumLengths(fs, i - 1)

\* C1: in the catalogue the reader builds, the first descriptor starts at
\* offset 0, every later descriptor starts where the previous one ends, and
\* record_length is the sum of all lengths, so the last descriptor ends exactly
\* at record_length.
C1_CatalogueTiles ==
    /\ Len(fields) > 0
    /\ fields[1].start_pos = 0
    /\ \A i \in 2..Len(fields) :
          fields[i].start_pos = fields[i - 1].start_pos + fields[i - 1].length
    /\ record_length = SumLengths(fields, Len(fields))
    /\ fields[Len(fields)].start_pos + fields[Len(fields)].length = record_length

C1_Witness ==
    /\ pc = "loop"
    /\ Len(fields) = 44
    /\ fields[13].name = "parole_chiave" /\ fields[13].start_pos = 528
    /\ record_length = 1698

\* C2: constructing the reader on a catalogue whose start offsets do not tile
\* fails, so no constructed reader, and no reader that has decoded a line,
\* holds a non-tiling catalogue.
C2_NonTilingCatalogueRejected ==
    pc \in {"constructed", "decoded"} => Tiles(fields)

\* C3: an integer field decodes to the value of the stripped substring when
\* that is non-empty and all decimal digits, and to zero in every other case;
\* the result is never negative.
C3_IntegerDecoding ==
    (pc = "field_done" /\ ftype = "integer") =>
        LET clean == Strip(raw) IN
        /\ out = IF Len(clean) > 0 /\ \A i \in 1..Len(clean) : clean[i] \in DecimalChars
                 THEN IntV(DecimalValue(clean, 1, 0))
                 ELSE IntV(0)
        /\ out.v[1] >= 0

\* C4: a boolean field decodes to true exactly when the stripped substring is
\* "1" or its upper-cased form is one of TRUE, 1, Y, S, SI.
C4_BooleanDecoding ==
    (pc = "field_done" /\ ftype = "boolean") =>
        LET clean == Strip(raw)
            truth == \/ clean = <<"1">>
                     \/ Upper(clean) = <<"T", "R", "U", "E">>
                     \/ Upper(clean) = <<"1">>
                     \/ Upper(clean) = <<"Y">>
                     \/ Upper(clean) = <<"S">>
                     \/ Upper(clean) = <<"S", "I">>
        IN  out = BoolV(truth)

C4_Witness ==
    /\ pc = "field_done" /\ ftype = "boolean"
    /\ raw = <<SP, "1">> /\ out = BoolV(TRUE)

C4_WitnessNo ==
    /\ pc = "field_done" /\ ftype = "boolean"
    /\ raw = <<"N", "O">> /\ out = BoolV(FALSE)

\* the calendar, for C5: the length of each month
C5_MonthLength(y, m) ==
    IF m = 2 /\ (y % 400 = 0 \/ (y % 4 = 0 /\ y % 100 # 0)) THEN 29
    ELSE <<31, 28, 31, 30, 31, 30, 31, 31, 30, 31, 30, 31>>[m]

\* C5: a date field decodes to the date read as YYYYMMDD exactly when the
\* stripped substring is 8 characters, all digits, and names a valid calendar
\* date (month 1..12, day within the month, year at least 1); otherwise it
\* decodes to the absent-value marker, and it never raises.
C5_DateDecoding ==
    (pc = "field_done" /\ ftype = "date") =>
        LET c == Strip(raw)
            n(i) == DigitVal(c[i])
            y == 1000 * n(1) + 100 * n(2) + 10 * n(3) + n(4)
            m == 10 * n(5) + n(6)
            d == 10 * n(7) + n(8)
        IN  IF /\ Len(c) = 8
               /\ \A i \in 1..8 : c[i] \in DecimalChars
               /\ y >= 1 /\ m \in 1..12 /\ d >= 1 /\ d <= C5_MonthLength(y, m)
            THEN out = DateV(y, m, d)
            ELSE out = NoneV

C5_Witness ==
    /\ pc = "field_done" /\ ftype = "date"
    /\ raw = <<"2", "0", "2", "5", "1", "2", "3", "1">>
    /\ out = DateV(2025, 12, 31)

\* C6: for a line shorter than record_length, parse_record does not raise and
\* returns the record of the line explicitly right-padded with spaces to
\* record_length; the padding drops or shifts no character of the line.
C6_ShortLinePadding ==
    (pc = "record_done" /\ Len(line) < record_length) =>
        LET explicit == line \o [i \in 1..(record_length - Len(line)) |-> SP] IN
        /\ ~IsException(rec)
        /\ rec = ParseRecord(fields, record_length, explicit)
        /\ work = explicit

\* C7: for a line of any length parse_record succeeds and returns a record
\* with exactly one value for each catalogue field, in catalogue order, also
\* when validate_record_length is false for the line.
C7_FullRecordForAnyLine ==
    pc = "record_done" =>
        /\ rec.t = "ClienteRecord"
        /\ Len(rec.v) = Len(fields)
        /\ \A i \in 1..Len(fields) : rec.v[i].name = fields[i].name

\* a line is blank when it holds nothing but whitespace (terminators included)
IsBlankLine(ln) == \A i \in 1..Len(ln) : ln[i] \in Whitespace

\* the decoding of a yielded line without its terminator
Decoding(ln) ==
    ParseRecord(fields, record_length,
                IF Len(ln) > 0 /\ ln[Len(ln)] = LF THEN SubSeq(ln, 1, Len(ln) - 1) ELSE ln)

NonBlankLines == SelectSeq(file, LAMBDA ln : ~IsBlankLine(ln))

\* C8: read_file skips every blank line and produces one record for every
\* other line, in input order: when no line fails to decode, the result has as
\* many records as the file has non-blank lines and its i-th record is the
\* decoding of the i-th non-blank line.
C8_BlankLinesSkipped ==
    (/\ pc = "returned"
     /\ \A i \in 1..Len(NonBlankLines) : ~IsException(Decoding(NonBlankLines[i]))) =>
        /\ result.t = "list"
        /\ Len(result.v) = Len(NonBlankLines)
        /\ \A i \in 1..Len(NonBlankLines) : result.v[i] = Decoding(NonBlankLines[i])

C8_Witness ==
    /\ pc = "returned"
    /\ file = <<ExactLine, SpaceLine, LastLine>>
    /\ Len(result.v) = 2

C8_WitnessAllBlank ==
    /\ pc = "returned"
    /\ file = <<BlankLine, SpaceLine, BlankLine>>
    /\ result = ListV(<<>>)

DecodableLines ==
    SelectSeq(file, LAMBDA ln : ~IsBlankLine(ln) /\ ~IsException(Decoding(ln)))

\* C9: when decoding some line raises, the read goes on and returns the
\* records of every other non-blank line, in input order.
C9_FailingLineDoesNotAbort ==
    (/\ pc = "returned"
     /\ \E i \in 1..Len(file) : ~IsBlankLine(file[i]) /\ IsException(Decoding(file[i]))) =>
        /\ Len(result.v) = Len(DecodableLines)
        /\ \A i \in 1..Len(DecodableLines) : result.v[i] = Decoding(DecodableLines[i])

C9_Witness ==
    /\ pc = "returned"
    /\ file = <<ExactLine, FailingLine, LastLine>>
    /\ Len(result.v) = 2

\* the numbers of the lines whose decoding raises, in input order
FailingLineNumbers ==
    SelectSeq([i \in 1..Len(file) |-> i],
              LAMBDA i : ~IsBlankLine(file[i]) /\ IsException(Decoding(file[i])))

C11_ValidateRecordLength ==
    pc = "validated" =>
        /\ \E k \in 0..Len(checked) :
              /\ k = 0 \/ checked[k] \notin {CR, LF}
              /\ \A j \in (k + 1)..Len(checked) : checked[j] \in {CR, LF}
              /\ (k = record_length => is_valid = BoolV(TRUE))
              /\ (k < record_length => is_valid = BoolV(FALSE))
              /\ (k > record_length => is_valid = BoolV(FALSE))
        /\ fields = DefineFields
        /\ record_length = 1698

C11_Witness ==
    /\ pc = "validated"
    /\ Len(checked) = record_length + 2
    /\ checked[record_length + 1] = CR /\ checked[record_length + 2] = LF
    /\ is_valid = BoolV(TRUE)

C11_WitnessShort ==
    /\ pc = "validated"
    /\ Len(checked) = record_length - 10
    /\ is_valid = BoolV(FALSE)

\* C12: get_field_info returns one entry per catalogue descriptor, in
\* catalogue order, with the descriptor's length, type and start position and
\* with end position = start position + length - 1; so, on the catalogue the
\* reader builds, each end position + 1 is the next start position, the last
\* end position is record_length - 1 and the lengths sum to record_length.
C12_FieldInfo ==
    pc = "info" =>
        /\ Len(field_info) = Len(fields)
        /\ \A i \in 1..Len(fields) :
              /\ field_info[i].key = fields[i].name
              /\ field_info[i].value.length = fields[i].length
              /\ field_info[i].value.type = fields[i].field_type
              /\ field_info[i].value.start_position = fields[i].start_pos
              /\ field_info[i].value.end_position
                     = field_info[i].value.start_position + field_info[i].value.length - 1
        /\ fields = DefineFields =>
              /\ \A i \in 1..(Len(field_info) - 1) :
                    field_info[i].value.end_position + 1
                       = field_info[i + 1].value.start_position
              /\ field_info[Len(field_info)].value.end_position = record_length - 1
              /\ SumLengths([i \in 1..Len(field_info) |-> field_info[i].value],
                            Len(field_info)) = record_length

C12_Witness ==
    /\ pc = "info"
    /\ fields = DefineFields
    /\ Len(field_info) = 44
    /\ field_info[44].key = "varie"
    /\ field_info[44].value.end_position = 1697

\* C13: for every record parse_record produces, writing each field value back
\* (its string form left-justified and space-padded to the field's length, the
\* fields concatenated in catalogue order) gives a line of the same layout, and
\* decoding that line gives the same value for every text field and every
\* integer field.
C13_RoundTrip ==
    pc = "round_trip_done" =>
        /\ Len(encoded) = record_length
        /\ ~IsException(redecoded)
        /\ \A i \in 1..Len(fields) :
              fields[i].field_type \in {"alpha field", "integer"} =>
                /\ Slice(encoded, fields[i].start_pos, fields[i].start_pos + fields[i].length)
                      = Ljust(PyStr(Attr(rec, fields[i].name)), fields[i].length)
                /\ Attr(redecoded, fields[i].name) = Attr(rec, fields[i].name)

\* an integer field read from "01": it is written back as "1" and read as 1 again
C13_Witness ==
    /\ pc = "round_trip_done"
    /\ Slice(work, 528, 536) = Ljust(<<"0", "1">>, 8)
    /\ Slice(encoded, 528, 536) = Ljust(<<"1">>, 8)
    /\ Attr(rec, "parole_chiave") = IntV(1)
    /\ Attr(redecoded, "parole_chiave") = IntV(1)

\* a text field read from " a": it is written back as "a" and read as "a" again
C13_WitnessText ==
    /\ pc = "round_trip_done"
    /\ Slice(work, 8, 14) = Ljust(<<SP, "a">>, 6)
    /\ Slice(encoded, 8, 14) = Ljust(<<"a">>, 6)
    /\ Attr(rec, "codice") = StrV(<<"a">>)
    /\ Attr(redecoded, "codice") = StrV(<<"a">>)

\* C14: decoding a single field never raises: for every raw substring and
\* every field type (text, integer, boolean, date) parse_value returns a value.
C14_DecodingNeverRaises ==
    pc = "field_done" => out.t \in {"str", "int", "bool", "date", "None"}

\* C15: for a line longer than record_length, parse_record gives what it gives
\* for the line's first record_length characters: the characters at offsets
\* record_length and beyond change no field value and cause no error.
C15_OversizeTailIgnored ==
    (pc = "record_done" /\ Len(line) > record_length) =>
        LET prefix == SubSeq(line, 1, record_length) IN
        /\ work = line
        /\ rec = ParseRecord(fields, record_length, prefix)
        /\ rec.t = "ClienteRecord" =>
              \A i \in 1..Len(fields) :
                 rec.v[i].value
                    = ParseValue(fields[i].field_type,
                                 SubSeq(prefix, fields[i].start_pos + 1,
                                        fields[i].start_pos + fields[i].length))

\* a line with U+00B2 beyond the record length, decoded to a record
C15_Witness ==
    /\ pc = "record_done"
    /\ Len(line) > record_length
    /\ \E i \in (record_length + 1)..Len(line) : line[i] = SUP2
    /\ rec.t = "ClienteRecord"
    /\ Attr(rec, "codice") = StrV(<<"1", SUP2>>)

\* C16: the file read_file opens is closed on every exit path: once read_file
\* has returned (with or without handled decode errors) or an exception has
\* left it, the file is not open; it is open only while the loop runs.
C16_FileClosedOnExit ==
    /\ pc \in {"returned", "raised"} => ~is_open
    /\ is_open => pc = "loop"

\* an exception left read_file after two lines had been read
C16_Witness ==
    /\ pc = "raised"
    /\ result = UnicodeDecodeError
    /\ line_num = 2
    /\ ~is_open

\* a normal return after a handled decode error
C16_WitnessHandled ==
    /\ pc = "returned"
    /\ stdout # <<>>
    /\ ~is_open

\* C18: the validation pass of main checks exactly the non-blank lines of the
\* file: valid_count + invalid_count is the number of non-blank lines (a blank
\* line is counted neither valid nor invalid), and that is the number of
\* records read_file returned for the same file when no line failed to decode.
C18_ValidationPassSelectsSameLines ==
    (pc = "main_done" /\ valid_count # NotYet) =>
        /\ valid_count.t = "int" /\ invalid_count.t = "int"
        /\ valid_count.v[1] + invalid_count.v[1] = Len(NonBlankLines)
        /\ valid_count.v[1]
              = Len(SelectSeq(NonBlankLines,
                              LAMBDA ln : Len(RStrip(ln, {CR, LF})) = record_length))
        /\ (\A i \in 1..Len(NonBlankLines) : ~IsException(Decoding(NonBlankLines[i]))) =>
              valid_count.v[1] + invalid_count.v[1] = Len(result.v)

\* a line of valid length, a blank line and a short line: one valid, one invalid
C18_Witness ==
    /\ pc = "main_done"
    /\ file = <<ExactLine, SpaceLine, LastLine>>
    /\ valid_count = IntV(1)
    /\ invalid_count = IntV(1)
    /\ Len(result.v) = 2

\* C17: every line the sample-data generator produces (create_sample_record
\* and create_diverse_sample_records, for every record number) is exactly
\* record_length characters long, its list of field lengths being the
\* catalogue's lengths position by position; so validate_record_length is
\* true for every generated line.
C17_GeneratedLineLength ==
    /\ \A k \in 1..Len(generated) : Len(generated[k]) = record_length
    /\ pc = "gen_validated" => is_valid = BoolV(TRUE)
    /\ pc \in {"generated", "gen_validated"} =>
          /\ Len(SampleFieldsData(record_num)) = Len(fields)
          /\ \A j \in 1..Len(fields) :
                SampleFieldsData(record_num)[j][3] = fields[j].length
          /\ \A i \in 0..(num_records - 1) :
                /\ Len(DiverseFieldsData(i)) = Len(fields)
                /\ \A j \in 1..Len(fields) :
                      DiverseFieldsData(i)[j][3] = fields[j].length

\* the line of create_sample_record(10), where 'PROMO10' is cut to 6 characters
C17_Witness ==
    /\ pc = "gen_validated"
    /\ record_num = 10
    /\ generated = <<checked>>
    /\ Slice(checked, fields[33].start_pos, fields[33].start_pos + 7)
          = <<"P", "R", "O", "M", "O", "1", " ">>
    /\ is_valid = BoolV(TRUE)

\* the third line of create_diverse_sample_records(3)
C17_WitnessDiverse ==
    /\ pc = "gen_validated"
    /\ Len(generated) = 3
    /\ checked = generated[3]
    /\ Slice(checked, 14, 33) = companies[3]
    /\ is_valid = BoolV(TRUE)

====
